---- MODULE Spec2Model ----
(***************************************************************************)
(* Model of the Pinia conversation store (store/chat.js), the axios        *)
(* wrapper it calls (api/index.js) and the browser objects it drives       *)
(* (WebSocket, localStorage, Date.now, Math.random).                       *)
(*                                                                         *)
(* JavaScript is single-threaded: every action below is one task of the    *)
(* event loop (a store call up to its first await, the continuation of an  *)
(* await, or one WebSocket event handler) and runs atomically.             *)
(***************************************************************************)
EXTENDS Integers, Sequences, FiniteSets, TLC

VARIABLES
    messages,          \* ref([])   the message log
    sessionId,         \* ref(null)
    isLoading,         \* ref(false)
    isStreaming,       \* ref(false)
    currentUser,       \* ref(null)
    accessToken,       \* ref(localStorage.getItem('access_token'))
    streamingMessage,  \* ref('')   the streaming buffer
    storedToken,       \* localStorage item 'access_token'
    now,               \* Date.now()
    sockets,           \* every WebSocket opened by sendMessageStream, in order
    inflight,          \* REST requests awaiting their response
    nCalls,            \* number of REST requests issued so far
    nMinted,           \* number of session ids minted so far
    nEvents,           \* number of events (WebSocket events, REST responses) handled so far
    reloadPending,     \* window.location.reload() was called and the page is still there
    priorSession,      \* history: the session id the latest logout discarded (null if
                       \* none), until the next sendMessageStream opens a connection
    last               \* history: the task that ran last, and what it observed

vars == <<messages, sessionId, isLoading, isStreaming, currentUser, accessToken,
          streamingMessage, storedToken, now, sockets, inflight, nCalls, nMinted,
          nEvents, reloadPending, priorSession, last>>

store == <<messages, sessionId, isLoading, isStreaming, currentUser, accessToken,
           streamingMessage, storedToken>>

-----------------------------------------------------------------------------
(* Bounds of the model *)

MaxOps == 2       \* network operations started: WebSockets opened and REST requests issued
MaxEvents == 4    \* events handled: WebSocket events and REST responses
MaxClock == 1     \* largest value of the millisecond clock

-----------------------------------------------------------------------------
(* JavaScript values.  Texts are sequences of characters; opaque strings   *)
(* (session ids, bearer tokens, user profiles) are TLA+ strings.           *)

Null == [t |-> "null"]
Undefined == [t |-> "undefined"]
Str(s) == [t |-> "string", v |-> s]

\* ToBoolean on the values that occur: null, undefined and '' are falsy
Truthy(v) == v.t = "string" /\ Len(v.v) > 0

\* obj.k : a property that is not there reads as undefined
Get(obj, k) == IF k \in DOMAIN obj THEN obj[k] ELSE Undefined

\* ToString as applied by  s += v
JsToString(v) ==
    CASE v.t = "undefined" -> <<"u", "n", "d", "e", "f", "i", "n", "e", "d">>
      [] v.t = "null" -> <<"n", "u", "l", "l">>
      [] OTHER -> v.v

IsSpace(c) == c = " "

RECURSIVE TrimStart(_)
TrimStart(s) ==
    IF s = <<>> THEN <<>>
    ELSE IF IsSpace(Head(s)) THEN TrimStart(Tail(s)) ELSE s

RECURSIVE TrimEnd(_)
TrimEnd(s) ==
    IF s = <<>> THEN <<>>
    ELSE IF IsSpace(s[Len(s)]) THEN TrimEnd(SubSeq(s, 1, Len(s) - 1)) ELSE s

\* String.prototype.trim
Trim(s) == TrimEnd(TrimStart(s))

\* a variant that does not trim
BlankUntrimmed(text) == text = <<>>

\* !text.trim()
Blank(text) == Trim(text) = <<>>

-----------------------------------------------------------------------------
(* Inputs *)

Texts == {<<>>, <<" ">>, <<"h", " ">>}

Fragments == {<<"x">>, <<"y">>}
DocFragments == {<<"x">>}

\* 'sess_' + Math.random().toString(36).slice(2, 11): the k-th id minted;
\* the random suffixes are taken to be pairwise distinct
MintId(k) == <<"sess_1", "sess_2", "sess_3", "sess_4", "sess_5">>[k]
ServerIds == {"srv-1"}               \* a session id the backend confirms on its own
Tokens == {"jwt"}
Users == {"alice"}
Details == {<<"e">>}
Replies == {<<"r">>}
Intents == {"after_sales"}
Statuses == {200, 401, 500}          \* HTTP status of a REST response
ConnectFailed == <<"W", "S", " ", "f", "a", "i", "l">>   \* 'WebSocket 连接失败'

\* Inbound frames, after JSON.parse.  The store reads the flattened shape
\* (content / session_id / detail); the API documentation gives the nested one
\* (data.token / data.intent ... / data.message).
TokenFrames ==
    {[type |-> "token", content |-> Str(f)] : f \in Fragments}
    \cup {[type |-> "token", data |-> [token |-> Str(f)]] : f \in DocFragments}

\* the backend confirms the id of the endpoint (url), or one of its own together
\* with the intent it recognised; the documented frame carries the intent only
DoneFrames(url) ==
    {[type |-> "done", session_id |-> Str(url)]}
    \cup {[type |-> "done", session_id |-> Str(s), intent |-> Str(k)] :
              s \in ServerIds, k \in Intents}
    \cup {[type |-> "done", data |-> [intent |-> Str(k)]] : k \in Intents}

ErrorFrames ==
    {[type |-> "error", detail |-> Str(d)] : d \in Details}
    \cup {[type |-> "error", data |-> [message |-> Str(d)]] : d \in Details}

Frames(url) == TokenFrames \cup DoneFrames(url) \cup ErrorFrames

FrameTypes == {"token", "done", "error"}

-----------------------------------------------------------------------------
(* Helpers on the message log *)

\* messages.value.find(m => m.id === id): index of the first match, 0 if none
FindIndex(msgs, id) ==
    IF \E i \in 1..Len(msgs) : msgs[i].id = id
    THEN CHOOSE i \in 1..Len(msgs) :
            /\ msgs[i].id = id
            /\ \A j \in 1..(i - 1) : msgs[j].id # id
    ELSE 0

UserMsg(text, id) == [role |-> "user", content |-> text, id |-> id]

\* `turn` is not a property of the JavaScript object: it stands for the object's
\* identity (the number of the sendMessageStream call that created it)
Placeholder(id, k) ==
    [role |-> "assistant", content |-> <<>>, id |-> id, streaming |-> TRUE, turn |-> k]

\* getter isLoggedIn
isLoggedIn == Truthy(accessToken)

-----------------------------------------------------------------------------
Init ==
    /\ messages = <<>>
    /\ sessionId = Null
    /\ isLoading = FALSE
    /\ isStreaming = FALSE
    /\ currentUser = Null
    /\ storedToken \in {Null} \cup {Str(t) : t \in Tokens}
    /\ accessToken = storedToken
    /\ streamingMessage = <<>>
    /\ now = 0
    /\ sockets = <<>>
    /\ inflight = {}
    /\ nCalls = 0
    /\ nMinted = 0
    /\ nEvents = 0
    /\ reloadPending = FALSE
    /\ priorSession = Null
    /\ last = [op |-> "init"]

\* Date.now(): the millisecond clock has advanced or not since it was last read
DateNow(t) == {t} \cup (IF t < MaxClock THEN {t + 1} ELSE {})

rest == <<inflight, nCalls, reloadPending>>

\* the event loop dispatches one more event
Dispatch ==
    /\ nEvents < MaxEvents
    /\ nEvents' = nEvents + 1

-----------------------------------------------------------------------------
(* The axios wrapper: request and response interceptors *)

\* request interceptor: Authorization: Bearer <token> if localStorage holds one
Request(op, args) ==
    [id |-> nCalls + 1, op |-> op, args |-> args,
     auth |-> IF Truthy(storedToken) THEN storedToken ELSE Undefined]

Issue(op, args) ==
    /\ Len(sockets) + nCalls < MaxOps
    /\ inflight' = inflight \cup {Request(op, args)}
    /\ nCalls' = nCalls + 1

\* response interceptor on a request answered with `status`:
\* a 401 removes the persisted token and reloads the page
Answered(r, status) ==
    /\ r \in inflight
    /\ Dispatch
    /\ inflight' = inflight \ {r}
    /\ reloadPending' = (reloadPending \/ status = 401)
    /\ UNCHANGED nCalls

\* a variant that leaves the persisted token alone
InterceptedKeepingToken(status) == storedToken

\* localStorage after the response interceptor
Intercepted(status) == IF status = 401 THEN Null ELSE storedToken

-----------------------------------------------------------------------------
(* login, logout, fetchMe *)

login ==
    /\ Issue("login", <<>>)
    /\ last' = [op |-> "login"]
    /\ UNCHANGED <<store, now, sockets, nMinted, priorSession, nEvents, reloadPending>>

loginResponse(r, status, tok, user) ==
    /\ r.op = "login"
    /\ Answered(r, status)
    /\ IF status = 200
       THEN /\ accessToken' = Str(tok)
            /\ currentUser' = Str(user)
            /\ storedToken' = Str(tok)
            /\ last' = [op |-> "login:response", call |-> r.id, status |-> status,
                        outcome |-> "resolved"]
       ELSE /\ storedToken' = Intercepted(status)
            /\ UNCHANGED <<accessToken, currentUser>>
            /\ last' = [op |-> "login:response", call |-> r.id, status |-> status,
                        outcome |-> "rejected"]
    /\ UNCHANGED <<messages, sessionId, isLoading, isStreaming, streamingMessage,
                   now, sockets, nMinted, priorSession>>

\* a variant that leaves the session id in place
LogoutKeepsSession ==
    /\ accessToken' = Null
    /\ currentUser' = Null
    /\ storedToken' = Null
    /\ messages' = <<>>
    /\ sessionId' = sessionId
    /\ priorSession' = (IF Truthy(sessionId) THEN sessionId ELSE Null)

LogoutEffect ==
    /\ accessToken' = Null
    /\ currentUser' = Null
    /\ storedToken' = Null
    /\ messages' = <<>>
    /\ sessionId' = Null
    /\ priorSession' = (IF Truthy(sessionId) THEN sessionId ELSE Null)

\* a variant that also ends the streaming state
logoutStoppingStream ==
    /\ LogoutEffect
    /\ isStreaming' = FALSE
    /\ last' = [op |-> "logout", dropped |-> Len(messages)]
    /\ UNCHANGED <<isLoading, streamingMessage, now, sockets, nMinted, nEvents, rest>>

logout ==
    /\ LogoutEffect
    /\ last' = [op |-> "logout", dropped |-> Len(messages)]
    /\ UNCHANGED <<isLoading, isStreaming, streamingMessage, now, sockets, nMinted, nEvents, rest>>

fetchMe ==
    /\ IF ~Truthy(accessToken)
       THEN UNCHANGED rest
       ELSE Issue("me", <<>>) /\ UNCHANGED reloadPending
    /\ last' = [op |-> "fetchMe", issued |-> Truthy(accessToken)]
    /\ UNCHANGED <<store, now, sockets, nMinted, priorSession, nEvents>>

\* a variant whose catch block does nothing
fetchMeResponseIgnoringFailure(r, status, user) ==
    /\ r.op = "me"
    /\ Answered(r, status)
    /\ IF status = 200
       THEN /\ currentUser' = Str(user)
            /\ UNCHANGED <<accessToken, storedToken, messages, sessionId, priorSession>>
       ELSE /\ storedToken' = Intercepted(status)
            /\ UNCHANGED <<currentUser, accessToken, messages, sessionId, priorSession>>
    /\ last' = [op |-> "fetchMe:response", call |-> r.id, status |-> status,
                dropped |-> 0]
    /\ UNCHANGED <<isLoading, isStreaming, streamingMessage, now, sockets, nMinted>>

fetchMeResponse(r, status, user) ==
    /\ r.op = "me"
    /\ Answered(r, status)
    /\ IF status = 200
       THEN /\ currentUser' = Str(user)
            /\ UNCHANGED <<accessToken, storedToken, messages, sessionId, priorSession>>
       ELSE LogoutEffect
    /\ last' = [op |-> "fetchMe:response", call |-> r.id, status |-> status,
                dropped |-> IF status = 200 THEN 0 ELSE Len(messages)]
    /\ UNCHANGED <<isLoading, isStreaming, streamingMessage, now, sockets, nMinted>>

-----------------------------------------------------------------------------
(* sendMessageStream and the handlers it installs on its WebSocket *)

\* the two pushes of sendMessageStream; t1 and t2 are its two readings of Date.now()
PushTurnSwapped(msgs, text, t1, t2, k) ==
    msgs \o <<Placeholder(t2 + 1, k), UserMsg(text, t1)>>

PushTurn(msgs, text, t1, t2, k) ==
    msgs \o <<UserMsg(text, t1), Placeholder(t2 + 1, k)>>

\* a variant that connects to one fixed endpoint
NewSocketFixedEndpoint(text, aiMsgId, sid) ==
    [aiMsgId |-> aiMsgId, url |-> "sess_0", text |-> text, readyState |-> "CONNECTING",
     sent |-> <<>>, carried |-> <<>>, nTokens |-> 0, ended |-> "no",
     closed |-> 0, onDone |-> 0, onError |-> 0]

NewSocket(text, aiMsgId, sid) ==
    [aiMsgId |-> aiMsgId, url |-> sid, text |-> text, readyState |-> "CONNECTING",
     sent |-> <<>>, carried |-> <<>>, nTokens |-> 0, ended |-> "no",
     closed |-> 0, onDone |-> 0, onError |-> 0]

sendMessageStream(text) ==
    IF Blank(text)
    THEN /\ last' = [op |-> "sendMessageStream", text |-> text, ws |-> 0]
         /\ UNCHANGED <<store, now, sockets, nMinted, priorSession, nEvents, rest>>
    ELSE /\ Len(sockets) + nCalls < MaxOps
         /\ \E t1 \in DateNow(now) : \E t2 \in DateNow(t1) :
               /\ now' = t2
               /\ messages' = PushTurn(messages, text, t1, t2, Len(sockets) + 1)
               \* sessionId.value || generateSessionId()
               /\ IF Truthy(sessionId)
                  THEN /\ sessionId' = sessionId
                       /\ nMinted' = nMinted
                       /\ sockets' = Append(sockets, NewSocket(text, t2 + 1, sessionId.v))
                  ELSE /\ sessionId' = Str(MintId(nMinted + 1))
                       /\ nMinted' = nMinted + 1
                       /\ sockets' = Append(sockets,
                                            NewSocket(text, t2 + 1, MintId(nMinted + 1)))
         /\ isStreaming' = TRUE
         /\ streamingMessage' = <<>>
         /\ priorSession' = Null
         /\ last' = [op |-> "sendMessageStream", text |-> text, ws |-> Len(sockets) + 1]
         /\ UNCHANGED <<isLoading, currentUser, accessToken, storedToken, nEvents, rest>>

\* a variant that sends the token whatever its value
PayloadWithAnyToken(text, tok) == [message |-> text, token |-> tok]

\* the payload of ws.send; JSON.stringify leaves out a key whose value is undefined
Payload(text, tok) ==
    IF Truthy(tok) THEN [message |-> text, token |-> tok] ELSE [message |-> text]

\* ws.onopen: the connection is established and the payload is sent
WsOpen(i) ==
    /\ sockets[i].readyState = "CONNECTING"
    /\ Dispatch
    /\ sockets' = [sockets EXCEPT ![i].readyState = "OPEN",
                                  ![i].sent = Append(@, Payload(sockets[i].text, accessToken))]
    /\ last' = [op |-> "ws.onopen", ws |-> i]
    /\ UNCHANGED <<store, now, nMinted, priorSession, rest>>

\* if (lastMsg) lastMsg.content = buf
SetContent(msgs, id, buf) ==
    LET k == FindIndex(msgs, id)
    IN  IF k = 0 THEN msgs ELSE [msgs EXCEPT ![k].content = buf]

\* if (lastMsg) lastMsg.streaming = false   (the property is created if absent)
ClearStreaming(msgs, id) ==
    LET k == FindIndex(msgs, id)
    IN  IF k = 0 THEN msgs
        ELSE [msgs EXCEPT ![k] = [f \in DOMAIN @ \cup {"streaming"} |->
                                     IF f = "streaming" THEN FALSE ELSE @[f]]]

\* the text fragment a token frame carries, in either wire shape
Fragment(data) ==
    IF "content" \in DOMAIN data THEN data.content.v ELSE data.data.token.v

\* data.type === 'token'
OnTokenFrame(i, data) ==
    LET buf == streamingMessage \o JsToString(Get(data, "content"))
    IN  /\ streamingMessage' = buf
        /\ messages' = SetContent(messages, sockets[i].aiMsgId, buf)
        /\ sockets' = [sockets EXCEPT ![i].carried = @ \o Fragment(data),
                                      ![i].nTokens = @ + 1]
        /\ last' = [op |-> "ws.onmessage", ws |-> i, data |-> data,
                    cb |-> <<"onToken", Get(data, "content")>>]
        /\ UNCHANGED <<sessionId, isStreaming>>

\* data.type === 'done'
OnDoneFrame(i, data) ==
    /\ sessionId' = Get(data, "session_id")
    /\ messages' = ClearStreaming(messages, sockets[i].aiMsgId)
    /\ isStreaming' = FALSE
    /\ sockets' = [sockets EXCEPT ![i].readyState = "CLOSED",
                                  ![i].ended = "done",
                                  ![i].closed = @ + 1,
                                  ![i].onDone = @ + 1]
    /\ last' = [op |-> "ws.onmessage", ws |-> i, data |-> data, cb |-> <<"onDone">>]
    /\ UNCHANGED streamingMessage

\* data.type === 'error'
OnErrorFrame(i, data) ==
    /\ isStreaming' = FALSE
    /\ sockets' = [sockets EXCEPT ![i].readyState = "CLOSED",
                                  ![i].ended = "error",
                                  ![i].closed = @ + 1,
                                  ![i].onError = @ + 1]
    /\ last' = [op |-> "ws.onmessage", ws |-> i, data |-> data,
                cb |-> <<"onError", Get(data, "detail")>>]
    /\ UNCHANGED <<messages, sessionId, streamingMessage>>

\* a variant in which the handler runs whatever the state of the socket
WsMessageInAnyState(i, data) ==
    /\ Dispatch
    /\ CASE data.type = "token" -> OnTokenFrame(i, data)
         [] data.type = "done" -> OnDoneFrame(i, data)
         [] data.type = "error" -> OnErrorFrame(i, data)
    /\ UNCHANGED <<isLoading, currentUser, accessToken, storedToken, now, nMinted, priorSession, rest>>

\* ws.onmessage: a message event is dispatched only while the socket is OPEN
\* (ws.close() leaves OPEN at once, so no frame is handled after it)
WsMessage(i, data) ==
    /\ sockets[i].readyState = "OPEN"
    /\ Dispatch
    /\ CASE data.type = "token" -> OnTokenFrame(i, data)
         [] data.type = "done" -> OnDoneFrame(i, data)
         [] data.type = "error" -> OnErrorFrame(i, data)
    /\ UNCHANGED <<isLoading, currentUser, accessToken, storedToken, now, nMinted, priorSession, rest>>

\* a frame reaches a socket that has left OPEN (after ws.close(), a failure or a
\* reload): no message event is fired and ws.onmessage does not run
WsFrameDropped(i, type) ==
    /\ sockets[i].readyState = "CLOSED"
    /\ last' = [op |-> "ws.message:dropped", ws |-> i, type |-> type]
    /\ UNCHANGED <<store, now, sockets, nMinted, nEvents, priorSession, rest>>

\* ws.onerror: the connection failed (while connecting or once open); the
\* browser closes the socket after the error event
WsError(i) ==
    /\ sockets[i].readyState \in {"CONNECTING", "OPEN"}
    /\ Dispatch
    /\ isStreaming' = FALSE
    /\ sockets' = [sockets EXCEPT ![i].readyState = "CLOSED",
                                  ![i].ended = "failure",
                                  ![i].onError = @ + 1]
    /\ last' = [op |-> "ws.onerror", ws |-> i, cb |-> <<"onError", Str(ConnectFailed)>>]
    /\ UNCHANGED <<messages, sessionId, isLoading, currentUser, accessToken,
                   streamingMessage, storedToken, now, nMinted, priorSession, rest>>

\* the peer closes the connection cleanly; the store installs no onclose handler
WsPeerClose(i) ==
    /\ sockets[i].readyState = "OPEN"
    /\ Dispatch
    /\ sockets' = [sockets EXCEPT ![i].readyState = "CLOSED"]
    /\ last' = [op |-> "ws.close", ws |-> i]
    /\ UNCHANGED <<store, now, nMinted, priorSession, rest>>

-----------------------------------------------------------------------------
(* ChatWindow.vue: the send button and the Enter key *)

\* a variant that does not look at the flags of the store
sendMessageUnguarded(inputText) ==
    IF Trim(inputText) = <<>>
    THEN /\ last' = [op |-> "ChatWindow.sendMessage", inputText |-> inputText]
         /\ UNCHANGED <<store, now, sockets, nMinted, nEvents, priorSession, rest>>
    ELSE sendMessageStream(Trim(inputText))

\* if (!text || store.isLoading || store.isStreaming) return
sendMessage(inputText) ==
    IF Trim(inputText) = <<>> \/ isLoading \/ isStreaming
    THEN /\ last' = [op |-> "ChatWindow.sendMessage", inputText |-> inputText]
         /\ UNCHANGED <<store, now, sockets, nMinted, nEvents, priorSession, rest>>
    ELSE sendMessageStream(Trim(inputText))

-----------------------------------------------------------------------------
(* sendMessageRest *)

\* a variant that drops the intent of the response
AssistantMsgWithoutIntent(res, id) ==
    [role |-> "assistant", content |-> res.reply, intent |-> Undefined,
     sources |-> res.rag_sources, id |-> id]

AssistantMsg(res, id) ==
    [role |-> "assistant", content |-> res.reply, intent |-> res.intent,
     sources |-> res.rag_sources, id |-> id]

\* the bodies POST /chat/message may answer request r with: the session id is
\* the one of the request, or one the backend makes
ChatResponses(r) ==
    IF r.op # "sendMessage" THEN {}
    ELSE LET sid == r.args.session_id IN
    {[session_id |-> Str(s), reply |-> reply, intent |-> Str(k), rag_sources |-> <<>>] :
        s \in ServerIds \cup (IF Truthy(sid) THEN {sid.v} ELSE {}),
        reply \in Replies, k \in Intents}

sendMessageRest(text) ==
    IF Blank(text)
    THEN /\ last' = [op |-> "sendMessageRest", text |-> text, issued |-> FALSE]
         /\ UNCHANGED <<store, now, sockets, nMinted, priorSession, nEvents, rest>>
    ELSE /\ \E t \in DateNow(now) :
               /\ now' = t
               /\ messages' = Append(messages, UserMsg(text, t))
         /\ isLoading' = TRUE
         /\ Issue("sendMessage", [message |-> text, session_id |-> sessionId])
         /\ last' = [op |-> "sendMessageRest", text |-> text, issued |-> TRUE]
         /\ UNCHANGED <<sessionId, isStreaming, currentUser, accessToken, streamingMessage,
                        storedToken, sockets, nMinted, priorSession, nEvents, reloadPending>>

\* a variant that takes the user message back when the request fails
sendMessageRestResponseRollingBack(r, status, res) ==
    /\ r.op = "sendMessage"
    /\ Answered(r, status)
    /\ storedToken' = Intercepted(status)
    /\ IF status = 200
       THEN /\ sessionId' = res.session_id
            /\ \E t \in DateNow(now) :
                  /\ now' = t
                  /\ messages' = Append(messages, AssistantMsg(res, t))
            /\ last' = [op |-> "sendMessageRest:response", call |-> r.id,
                        status |-> status, outcome |-> "resolved", res |-> res]
       ELSE /\ messages' = SubSeq(messages, 1, Len(messages) - 1)
            /\ UNCHANGED <<sessionId, now>>
            /\ last' = [op |-> "sendMessageRest:response", call |-> r.id,
                        status |-> status, outcome |-> "rejected"]
    /\ isLoading' = FALSE
    /\ UNCHANGED <<isStreaming, currentUser, accessToken, streamingMessage, sockets,
                   nMinted, priorSession>>

sendMessageRestResponse(r, status, res) ==
    /\ r.op = "sendMessage"
    /\ Answered(r, status)
    /\ storedToken' = Intercepted(status)
    /\ IF status = 200
       THEN /\ sessionId' = res.session_id
            /\ \E t \in DateNow(now) :
                  /\ now' = t
                  /\ messages' = Append(messages, AssistantMsg(res, t))
            /\ last' = [op |-> "sendMessageRest:response", call |-> r.id,
                        status |-> status, outcome |-> "resolved", res |-> res]
       ELSE /\ UNCHANGED <<sessionId, messages, now>>
            /\ last' = [op |-> "sendMessageRest:response", call |-> r.id,
                        status |-> status, outcome |-> "rejected"]
    \* finally
    /\ isLoading' = FALSE
    /\ UNCHANGED <<isStreaming, currentUser, accessToken, streamingMessage, sockets, nMinted, priorSession>>

-----------------------------------------------------------------------------
(* clearConversation, submitFeedback *)

ClearEffect ==
    /\ messages' = <<>>
    /\ sessionId' = Null
    /\ streamingMessage' = <<>>

clearConversation ==
    /\ IF Truthy(sessionId)
       THEN /\ Issue("endSession", sessionId)
            /\ UNCHANGED <<messages, sessionId, streamingMessage, reloadPending>>
       ELSE /\ ClearEffect
            /\ UNCHANGED rest
    /\ last' = [op |-> "clearConversation", issued |-> Truthy(sessionId),
                dropped |-> IF Truthy(sessionId) THEN 0 ELSE Len(messages)]
    /\ UNCHANGED <<isLoading, isStreaming, currentUser, accessToken, storedToken,
                   now, sockets, nMinted, priorSession, nEvents>>

\* a variant without the try/catch: a failed request ends the call at the await
clearConversationUncaught(r, status) ==
    /\ r.op = "endSession"
    /\ Answered(r, status)
    /\ storedToken' = Intercepted(status)
    /\ IF status = 200
       THEN ClearEffect
       ELSE UNCHANGED <<messages, sessionId, streamingMessage>>
    /\ last' = [op |-> "clearConversation:response", call |-> r.id, status |-> status,
                outcome |-> IF status = 200 THEN "resolved" ELSE "rejected",
                dropped |-> IF status = 200 THEN Len(messages) ELSE 0]
    /\ UNCHANGED <<isLoading, isStreaming, currentUser, accessToken, now, sockets, nMinted, priorSession>>

\* the continuation of  try { await chatAPI.endSession(...) } catch {}
clearConversationResponse(r, status) ==
    /\ r.op = "endSession"
    /\ Answered(r, status)
    /\ storedToken' = Intercepted(status)
    /\ ClearEffect
    /\ last' = [op |-> "clearConversation:response", call |-> r.id, status |-> status,
                outcome |-> "resolved", dropped |-> Len(messages)]
    /\ UNCHANGED <<isLoading, isStreaming, currentUser, accessToken, now, sockets, nMinted, priorSession>>

submitFeedback ==
    /\ Issue("feedback", <<>>)
    /\ last' = [op |-> "submitFeedback"]
    /\ UNCHANGED <<store, now, sockets, nMinted, priorSession, nEvents, reloadPending>>

submitFeedbackResponse(r, status) ==
    /\ r.op = "feedback"
    /\ Answered(r, status)
    /\ storedToken' = Intercepted(status)
    /\ last' = [op |-> "submitFeedback:response", call |-> r.id, status |-> status,
                outcome |-> IF status = 200 THEN "resolved" ELSE "rejected"]
    /\ UNCHANGED <<messages, sessionId, isLoading, isStreaming, currentUser, accessToken,
                   streamingMessage, now, sockets, nMinted, priorSession>>

-----------------------------------------------------------------------------
(* window.location.reload(): the page goes away and the store is built anew *)

Reload ==
    /\ reloadPending
    /\ messages' = <<>>
    /\ sessionId' = Null
    /\ isLoading' = FALSE
    /\ isStreaming' = FALSE
    /\ currentUser' = Null
    /\ accessToken' = storedToken
    /\ streamingMessage' = <<>>
    \* the connections of the page go away with it; their turns never end
    /\ sockets' = [i \in 1..Len(sockets) |->
                      [sockets[i] EXCEPT !.readyState = "CLOSED",
                                         !.ended = IF @ = "no" THEN "unload" ELSE @]]
    /\ inflight' = {}
    /\ reloadPending' = FALSE
    /\ last' = [op |-> "reload"]
    /\ UNCHANGED <<storedToken, now, nCalls, nMinted, priorSession, nEvents>>

-----------------------------------------------------------------------------
\* the events of the WebSockets
SocketNext ==
    \/ \E i \in 1..Len(sockets) : WsOpen(i)
    \/ \E i \in 1..Len(sockets) : \E data \in Frames(sockets[i].url) : WsMessage(i, data)
    \/ \E i \in 1..Len(sockets) : \E type \in FrameTypes : WsFrameDropped(i, type)
    \/ \E i \in 1..Len(sockets) : WsError(i)
    \/ \E i \in 1..Len(sockets) : WsPeerClose(i)

StreamNext ==
    \/ \E text \in Texts : sendMessageStream(text)
    \/ SocketNext

RestNext ==
    \/ login
    \/ \E r \in inflight, st \in Statuses, tok \in Tokens, u \in Users :
          loginResponse(r, st, tok, u)
    \/ fetchMe
    \/ \E r \in inflight, st \in Statuses, u \in Users : fetchMeResponse(r, st, u)
    \/ \E text \in Texts : sendMessageRest(text)
    \/ \E r \in inflight, st \in Statuses :
          \E res \in ChatResponses(r) : sendMessageRestResponse(r, st, res)
    \/ clearConversation
    \/ \E r \in inflight, st \in Statuses : clearConversationResponse(r, st)
    \/ submitFeedback
    \/ \E r \in inflight, st \in Statuses : submitFeedbackResponse(r, st)
    \/ Reload

Next ==
    \/ logout
    \/ StreamNext
    \/ RestNext

Spec == Init /\ [][Next]_vars

\* the application as ChatWindow drives it: sendMessageStream is called through
\* sendMessage only
NextUI ==
    \/ logout
    \/ \E inputText \in Texts : sendMessage(inputText)
    \/ SocketNext
    \/ RestNext

SpecUI == Init /\ [][NextUI]_vars

-----------------------------------------------------------------------------
(* Vocabulary of the properties *)

\* the text is empty or consists of whitespace only
AllWhitespace(text) == \A k \in 1..Len(text) : IsSpace(text[k])

\* the message is in streaming state
Streaming(m) == "streaming" \in DOMAIN m /\ m.streaming

\* position in the log of the placeholder created for turn i, 0 if it is not there
PlaceholderOf(msgs, i) ==
    IF \E k \in 1..Len(msgs) : "turn" \in DOMAIN msgs[k] /\ msgs[k].turn = i
    THEN CHOOSE k \in 1..Len(msgs) : "turn" \in DOMAIN msgs[k] /\ msgs[k].turn = i
    ELSE 0

\* no event of the socket has been handled
Untouched(ws) ==
    /\ ws.readyState = "CONNECTING"
    /\ ws.sent = <<>>
    /\ ws.nTokens = 0
    /\ ws.ended = "no"
    /\ ws.onDone = 0
    /\ ws.onError = 0

-----------------------------------------------------------------------------
(* C1: for every text that is non-empty after trimming, from any store    *)
(* state, sendMessageStream(text) leaves the log equal to the previous log *)
(* followed by a user message with content = text and then an assistant    *)
(* placeholder with empty content and streaming = true; isStreaming is     *)
(* true; and no event of the new adapter has been handled yet.             *)
C1_SendAppendsUserThenPlaceholder ==
    [][(last'.op = "sendMessageStream" /\ ~AllWhitespace(last'.text)) =>
          LET n == Len(messages) IN
          /\ Len(messages') = n + 2
          /\ SubSeq(messages', 1, n) = messages
          /\ messages'[n + 1].role = "user"
          /\ messages'[n + 1].content = last'.text
          /\ ~Streaming(messages'[n + 1])
          /\ messages'[n + 2].role = "assistant"
          /\ messages'[n + 2].content = <<>>
          /\ Streaming(messages'[n + 2])
          /\ isStreaming'
          /\ Len(sockets') = Len(sockets) + 1
          /\ Untouched(sockets'[Len(sockets')])]_vars

\* a non-blank send on top of a log that already holds a turn
C1_Witness ==
    /\ last.op = "sendMessageStream"
    /\ last.ws = 2
    /\ Len(messages) = 4
    /\ isStreaming

(* C2: in every reachable state at most one message of the log has         *)
(* streaming = true.                                                       *)
C2_AtMostOneStreamingMessage ==
    Cardinality({k \in 1..Len(messages) : Streaming(messages[k])}) <= 1

(* C3: a sendMessageStream call made while isStreaming is true appends no  *)
(* message, opens no connection and leaves sessionId, isStreaming and the  *)
(* streaming buffer unchanged.                                             *)
C3_SendWhileStreamingRejected ==
    [][(last'.op = "sendMessageStream" /\ isStreaming) =>
          /\ messages' = messages
          /\ sockets' = sockets
          /\ sessionId' = sessionId
          /\ isStreaming' = isStreaming
          /\ streamingMessage' = streamingMessage]_vars
\* the step handles a frame of the given type
Handles(l, type) == l.op = "ws.onmessage" /\ l.data.type = type

\* the step ends a turn with an error frame or a transport-level failure
EndsInError(l) == Handles(l, "error") \/ l.op = "ws.onerror"

(* C4: after each token frame of a turn is handled, the content of the     *)
(* turn's placeholder is the concatenation, in order, of the fragments of  *)
(* all token frames handled for the turn so far, and onToken was invoked   *)
(* with that frame's fragment.                                             *)
C4_TokensConcatenateInOrder ==
    [][Handles(last', "token") =>
          LET i == last'.ws
              k == PlaceholderOf(messages', i)
          IN  /\ k # 0 => messages'[k].content = sockets'[i].carried
              /\ last'.cb = <<"onToken", Str(Fragment(last'.data))>>]_vars

(* C5: when a done frame is handled for a turn, the turn's placeholder has *)
(* streaming = false, isStreaming is false, sessionId is the session id    *)
(* the frame supplies, and onDone has been invoked once.                   *)
C5_DoneFinishesTurn ==
    [][Handles(last', "done") =>
          LET i == last'.ws
              k == PlaceholderOf(messages', i)
          IN  /\ k # 0 => ~Streaming(messages'[k])
              /\ ~isStreaming'
              /\ "session_id" \in DOMAIN last'.data => sessionId' = last'.data.session_id
              /\ last'.cb = <<"onDone">>
              /\ sockets'[i].onDone = 1]_vars

(* C6: when a turn ends with an error frame or a transport-level failure,  *)
(* isStreaming becomes false and onError is invoked exactly once over the  *)
(* whole turn, with a non-empty diagnostic string.                         *)
C6_ErrorReportedOnce ==
    [][EndsInError(last') =>
          /\ ~isStreaming'
          /\ sockets'[last'.ws].onError = 1
          /\ last'.cb[1] = "onError"
          /\ last'.cb[2].t = "string"
          /\ Len(last'.cb[2].v) > 0]_vars

(* C7: after an error frame or a transport-level failure is handled for a  *)
(* turn, the turn's placeholder has streaming = false.                     *)
C7_ErrorClearsStreamingFlag ==
    [][EndsInError(last') =>
          LET k == PlaceholderOf(messages', last'.ws)
          IN  k # 0 => ~Streaming(messages'[k])]_vars

(* C8: sendMessageStream and sendMessageRest with a text that is empty or  *)
(* whitespace only change nothing: no message, no connection, no request,  *)
(* no session id minted, the store unchanged, no callback invoked.         *)
C8_BlankTextIsNoOp ==
    [][(last'.op \in {"sendMessageStream", "sendMessageRest"} /\ AllWhitespace(last'.text)) =>
          /\ UNCHANGED <<messages, sessionId, isStreaming, isLoading, currentUser,
                         accessToken, streamingMessage, storedToken>>
          /\ UNCHANGED <<sockets, inflight, nCalls, nMinted>>
          /\ "cb" \notin DOMAIN last']_vars

\* a whitespace-only send in the middle of a conversation
C8_Witness ==
    /\ last.op = "sendMessageStream"
    /\ last.text = <<" ">>
    /\ Len(messages) > 0
    /\ Truthy(sessionId)

(* C9: whenever clearConversation completes, the log is empty and          *)
(* sessionId is absent, whether the end-session request succeeded, failed  *)
(* or was not issued; the call never ends in a failure.                    *)
C9_ClearAlwaysResets ==
    (\/ last.op = "clearConversation:response"
     \/ (last.op = "clearConversation" /\ ~last.issued)) =>
        /\ messages = <<>>
        /\ sessionId = Null
        /\ last.op = "clearConversation:response" => last.outcome = "resolved"

\* the end-session request failed and a non-empty log was dropped
C9_Witness ==
    /\ last.op = "clearConversation:response"
    /\ last.status = 500
    /\ last.dropped > 0
    /\ messages = <<>>

(* C10: immediately after logout the access token is absent in memory and  *)
(* in localStorage, currentUser is absent, isLoggedIn is false, the log is *)
(* empty and sessionId is absent.                                          *)
C10_LogoutClearsAuthAndConversation ==
    last.op = "logout" =>
        /\ accessToken = Null
        /\ storedToken = Null
        /\ currentUser = Null
        /\ ~isLoggedIn
        /\ messages = <<>>
        /\ sessionId = Null

\* a logout in the middle of a streaming turn
C10_Witness ==
    /\ last.op = "logout"
    /\ last.dropped > 0
    /\ isStreaming
(* C11: the first sendMessageStream call made after a logout opens its     *)
(* connection with a session id different from the one that was active     *)
(* before the logout, whatever frames of an earlier turn were delivered in  *)
(* between.                                                                *)
C11_NoSessionReuseAfterLogout ==
    [][(last'.op = "sendMessageStream" /\ last'.ws # 0 /\ Truthy(priorSession)) =>
          sockets'[last'.ws].url # priorSession.v]_vars
\* the intent a done frame carries, in either wire shape (undefined if none)
FrameIntent(data) ==
    IF "intent" \in DOMAIN data THEN data.intent
    ELSE IF "data" \in DOMAIN data THEN Get(data.data, "intent")
    ELSE Undefined

\* the message carries completion metadata
HasMetadata(m) == {"intent", "sources", "latency_ms", "latencyMs"} \cap DOMAIN m # {}

(* C12: when a done frame carrying an intent is handled for a turn, the     *)
(* turn's assistant message carries that intent afterwards; and a           *)
(* placeholder carries no completion metadata before its done frame.        *)
C12_DoneAttachesMetadata ==
    [][/\ (Handles(last', "done") /\ FrameIntent(last'.data) # Undefined) =>
             LET k == PlaceholderOf(messages', last'.ws)
             IN  k # 0 => Get(messages'[k], "intent") = FrameIntent(last'.data)
       /\ \A k \in 1..Len(messages') :
             ("turn" \in DOMAIN messages'[k] /\ sockets'[messages'[k].turn].ended # "done")
                => ~HasMetadata(messages'[k])]_vars
(* C13: isLoading is true while the request of a sendMessageRest call is    *)
(* outstanding and false when the call exits, on success and on failure     *)
(* alike; a failed request makes the call reject.                           *)
C13_LoadingFlagBracketsRequest ==
    /\ \A r \in inflight : r.op = "sendMessage" => isLoading
    /\ last.op = "sendMessageRest:response" =>
          /\ ~isLoading
          /\ last.status # 200 => last.outcome = "rejected"
(* C14: sendMessageRest(text) with non-blank text appends the user message *)
(* (content = text) in the task that issues the request, and the request    *)
(* carries the session id active at call time; a successful response sets   *)
(* sessionId to the id the server returned and appends exactly one          *)
(* assistant message with the content, intent and sources of the response,  *)
(* which is not in streaming state.                                         *)
C14_RestTurnOnSuccess ==
    [][LET n == Len(messages) IN
       /\ (last'.op = "sendMessageRest" /\ last'.issued) =>
             /\ Len(messages') = n + 1
             /\ SubSeq(messages', 1, n) = messages
             /\ messages'[n + 1].role = "user"
             /\ messages'[n + 1].content = last'.text
             /\ \E r \in inflight' \ inflight :
                   /\ inflight' = inflight \cup {r}
                   /\ r.op = "sendMessage"
                   /\ r.args.message = last'.text
                   /\ r.args.session_id = sessionId
       /\ (last'.op = "sendMessageRest:response" /\ last'.outcome = "resolved") =>
             /\ sessionId' = last'.res.session_id
             /\ Len(messages') = n + 1
             /\ SubSeq(messages', 1, n) = messages
             /\ messages'[n + 1].role = "assistant"
             /\ messages'[n + 1].content = last'.res.reply
             /\ messages'[n + 1].intent = last'.res.intent
             /\ messages'[n + 1].sources = last'.res.rag_sources
             /\ ~Streaming(messages'[n + 1])]_vars

\* a REST turn answered with a session id of the backend, the reply following
\* the user message in the log
C14_Witness ==
    /\ last.op = "sendMessageRest:response"
    /\ last.outcome = "resolved"
    /\ sessionId = Str("srv-1")
    /\ Len(messages) >= 2
    /\ messages[Len(messages) - 1].role = "user"
    /\ messages[Len(messages)].role = "assistant"
    /\ messages[Len(messages)].intent = Str("after_sales")
\* the frame has the shape the API documentation gives
Documented(data) == "data" \in DOMAIN data

(* C15: when a token frame of the documented shape                          *)
(* {"type": "token", "data": {"token": s}} is handled, exactly s is         *)
(* appended to the content of the turn's placeholder and onToken is         *)
(* invoked with s.                                                          *)
C15_DocumentedTokenAppended ==
    [][(Handles(last', "token") /\ Documented(last'.data)) =>
          LET s == last'.data.data.token
              k == PlaceholderOf(messages, last'.ws)
          IN  /\ k # 0 => messages'[k].content = messages[k].content \o s.v
              /\ last'.cb = <<"onToken", s>>]_vars
C17_StoreClosesAdapter ==
    [][(Handles(last', "done") \/ EndsInError(last')) =>
          /\ sockets'[last'.ws].closed >= 1
          /\ sockets'[last'.ws].readyState = "CLOSED"]_vars
\* the step is the arrival of a frame at an adapter, handled or not
FrameArrives(l) == l.op \in {"ws.onmessage", "ws.message:dropped"}

(* C18: a frame that arrives at an adapter whose turn has ended (a done     *)
(* frame, an error frame or a transport-level failure was handled) is       *)
(* ignored: no message changes, sessionId, isStreaming and the streaming    *)
(* buffer stay as they are, and none of onToken, onDone, onError is invoked.*)
C18_FramesAfterEndIgnored ==
    [][(FrameArrives(last') /\ sockets[last'.ws].ended # "no") =>
          /\ messages' = messages
          /\ sessionId' = sessionId
          /\ isStreaming' = isStreaming
          /\ streamingMessage' = streamingMessage
          /\ sockets' = sockets
          /\ "cb" \notin DOMAIN last']_vars

\* a token frame arrives after the done frame of a turn whose placeholder is in
\* the log
C18_Witness ==
    /\ last.op = "ws.message:dropped"
    /\ last.type = "token"
    /\ sockets[last.ws].ended = "done"
    /\ PlaceholderOf(messages, last.ws) # 0
    /\ messages[PlaceholderOf(messages, last.ws)].content = <<"x">>
(* C19: a sendMessageStream call that opens a connection opens it for the  *)
(* active session id and leaves sessionId as it is, if one is active;       *)
(* otherwise it mints a new id, opens the connection for it and sessionId   *)
(* is that id when the call returns.  Either way the id of the endpoint is  *)
(* the store's sessionId at return.                                         *)
C19_SessionIdResolved ==
    [][(last'.op = "sendMessageStream" /\ last'.ws # 0) =>
          LET ws == sockets'[last'.ws] IN
          /\ Truthy(sessionId) =>
                /\ ws.url = sessionId.v
                /\ sessionId' = sessionId
                /\ nMinted' = nMinted
          /\ ~Truthy(sessionId) =>
                /\ nMinted' = nMinted + 1
                /\ ws.url = MintId(nMinted')
          /\ sessionId' = Str(ws.url)]_vars

\* the first call minted an id, the backend replaced it, the second call reuses
\* the backend's id
C19_Witness ==
    /\ last.op = "sendMessageStream"
    /\ last.ws = 2
    /\ nMinted = 1
    /\ sockets[1].url = "sess_1"
    /\ sockets[2].url = "srv-1"
    /\ sessionId = Str("srv-1")
(* C20: in every reachable state no two messages of the log have the same  *)
(* id, also when calls are issued within the same tick of the clock.        *)
C20_MessageIdsUnique ==
    \A i, j \in 1..Len(messages) : i # j => messages[i].id # messages[j].id
(* C21: when the identity request of fetchMe fails, the store ends logged   *)
(* out: the token is absent in memory and in localStorage, currentUser is   *)
(* absent, the log is empty and sessionId is absent; a fetchMe call made    *)
(* without an access token issues no request and changes nothing.           *)
C21_FetchMeFailureLogsOut ==
    [][/\ (last'.op = "fetchMe:response" /\ last'.status # 200) =>
             /\ accessToken' = Null
             /\ storedToken' = Null
             /\ currentUser' = Null
             /\ messages' = <<>>
             /\ sessionId' = Null
       /\ (last'.op = "fetchMe" /\ ~isLoggedIn) =>
             /\ ~last'.issued
             /\ UNCHANGED <<messages, sessionId, isLoading, isStreaming, currentUser,
                            accessToken, streamingMessage, storedToken>>
             /\ UNCHANGED <<inflight, nCalls, sockets>>]_vars

\* the identity request fails with a server error in the middle of a conversation
C21_Witness ==
    /\ last.op = "fetchMe:response"
    /\ last.status = 500
    /\ last.dropped > 0
    /\ accessToken = Null
(* C22: submitFeedback changes none of messages, sessionId, the flags, the *)
(* streaming buffer, currentUser and accessToken, neither when called nor   *)
(* when its request is answered; and the call never ends in a failure,      *)
(* whatever the answer.                                                     *)
C22_FeedbackFireAndForget ==
    [][(last'.op \in {"submitFeedback", "submitFeedback:response"}) =>
          /\ UNCHANGED <<messages, sessionId, isLoading, isStreaming, currentUser,
                         accessToken, streamingMessage>>
          /\ last'.op = "submitFeedback:response" => last'.outcome = "resolved"]_vars
\* the step handles the response to a REST request
IsResponse(l) ==
    l.op \in {"login:response", "fetchMe:response", "sendMessageRest:response",
              "clearConversation:response", "submitFeedback:response"}

\* the step is a logout, called directly or by fetchMe on a failed request
IsLogout(l) == l.op = "logout" \/ (l.op = "fetchMe:response" /\ l.status # 200)

(* C23: the token in localStorage is set only by a successful login and    *)
(* removed only by a logout or a response with status 401; after a logout   *)
(* and after a 401 response it is absent; and every REST request issued     *)
(* while a token is persisted carries it in its Authorization header.       *)
C23_PersistedTokenLifetime ==
    [][/\ storedToken' # storedToken =>
             \/ /\ last'.op = "login:response"
                /\ last'.status = 200
                /\ Truthy(storedToken')
             \/ /\ storedToken' = Null
                /\ IsLogout(last') \/ (IsResponse(last') /\ last'.status = 401)
       /\ (last'.op = "login:response" /\ last'.status = 200) => Truthy(storedToken')
       /\ IsLogout(last') => storedToken' = Null
       /\ (IsResponse(last') /\ last'.status = 401) => storedToken' = Null
       /\ \A r \in inflight' \ inflight :
             r.auth = (IF Truthy(storedToken) THEN storedToken ELSE Undefined)]_vars

\* a 401 response removes the persisted token while the store still holds it in
\* memory
C23_Witness ==
    /\ last.op = "sendMessageRest:response"
    /\ last.status = 401
    /\ storedToken = Null
    /\ accessToken = Str("jwt")
\* the step ends a turn: a done frame, an error frame or a transport failure
EndsTurn(l) == Handles(l, "done") \/ EndsInError(l)

(* C24: once isStreaming is true it stays true until a done frame, an      *)
(* error frame or a transport error is handled: no other step sets it to    *)
(* false.                                                                   *)
C24_StreamingUntilTurnEnds ==
    [][(isStreaming /\ ~isStreaming') => EndsTurn(last')]_vars

(* C24, amended: once isStreaming is true it stays true until a done       *)
(* frame, an error frame or a transport error is handled, or the page is    *)
(* reloaded after a response with status 401; clearConversation, logout,    *)
(* login, fetchMe, sendMessageRest and submitFeedback never set it to       *)
(* false in the running store.                                              *)
C24_StreamingUntilTurnEndsOrReload ==
    [][(isStreaming /\ ~isStreaming') => (EndsTurn(last') \/ last'.op = "reload")]_vars

\* the page reloads under a turn that was opened and has not ended: the new
\* store is not streaming
C24_Witness ==
    /\ last.op = "reload"
    /\ ~isStreaming
    /\ \E i \in 1..Len(sockets) :
          /\ sockets[i].ended = "unload"
          /\ Len(sockets[i].sent) = 1
          /\ sockets[i].nTokens > 0
\* the step clears the conversation or builds the store anew
ClearsSession(l) ==
    \/ IsLogout(l)
    \/ l.op \in {"clearConversation", "clearConversation:response", "reload"}

(* C25: once a session id is active, sessionId does not become absent      *)
(* (null, undefined) unless clearConversation or logout is called or the    *)
(* page is reloaded; in particular not when a done frame of the documented  *)
(* shape is handled.                                                        *)
C25_SessionIdStaysDefined ==
    [][(Truthy(sessionId) /\ ~Truthy(sessionId')) => ClearsSession(last')]_vars
\* the turn is in flight: its connection was opened by this page and neither a
\* terminal frame nor a transport failure has been handled for it
InFlight(ws) == ws.ended = "no"

(* C26: when sendMessageStream is called through ChatWindow.sendMessage     *)
(* only, at no time are two streaming turns in flight, and a turn is        *)
(* opened only while the store is neither loading nor streaming.            *)
C26_OneTurnInFlightThroughUI ==
    [][/\ Cardinality({i \in 1..Len(sockets') : InFlight(sockets'[i])}) <= 1
       /\ Len(sockets') > Len(sockets) =>
             /\ ~isStreaming /\ ~isLoading
             /\ \A i \in 1..Len(sockets) : ~InFlight(sockets[i])]_vars

\* the send button is used while a turn is in flight: the store is not called
C26_Witness ==
    /\ last.op = "ChatWindow.sendMessage"
    /\ ~Blank(last.inputText)
    /\ isStreaming
    /\ \E i \in 1..Len(sockets) : InFlight(sockets[i]) /\ sockets[i].nTokens > 0
\* the step completes a clearConversation call
ClearCompleted(l) ==
    \/ l.op = "clearConversation:response"
    \/ (l.op = "clearConversation" /\ ~l.issued)

(* C27: after clearConversation has completed, the log stays empty and     *)
(* sessionId stays absent when the next thing to happen is the delivery of  *)
(* a token or done frame of a turn started before the clear.                *)
C27_ClearedDespiteLateFrames ==
    [][(ClearCompleted(last) /\ FrameArrives(last')) =>
          /\ messages' = <<>>
          /\ ~Truthy(sessionId')]_vars
(* C28: a token frame handled on the adapter of one turn changes no        *)
(* message but that turn's placeholder, and extends the placeholder's own   *)
(* content by the frame's fragment: what other turns do or receive has no   *)
(* part in it.                                                              *)
C28_TurnsIsolated ==
    [][(Handles(last', "token") /\ ~Documented(last'.data)) =>
          LET k == PlaceholderOf(messages, last'.ws) IN
          /\ Len(messages') = Len(messages)
          /\ \A j \in 1..Len(messages) : j # k => messages'[j] = messages[j]
          /\ k # 0 => messages'[k].content = messages[k].content \o Fragment(last'.data)]_vars
====
